---------------------------- MODULE Spec2Model ----------------------------
(***************************************************************************)
(* A model of the AT command emulator of src/at_emulator_serial.py         *)
(* (class ATEmulator) together with the serial clients that drive it       *)
(* (src/send_at_command.py, src/multi_send.py).                            *)
(*                                                                         *)
(* Python strings are TLA+ strings; TLC evaluates Len, \o, SubSeq, Head    *)
(* and Tail on them, so split/strip/replace are computed character by      *)
(* character exactly as the interpreter does.                              *)
(***************************************************************************)
EXTENDS Integers, Sequences, FiniteSets, TLC

(***************************************************************************)
(* Bounds of the model.                                                    *)
(***************************************************************************)
\* command lines the client writes in one session
MaxLines == 2
\* reads of the serial port that see only a part of what the client wrote
MaxSplits == 1

(***************************************************************************)
(* Python string primitives.                                               *)
(***************************************************************************)
\* s[i-1:i]
Char(s, i) == SubSeq(s, i, i)

\* c in s
Contains(s, c) == \E i \in 1..Len(s) : Char(s, i) = c

\* s.find(c) + 1: the position of the first c in s, 0 when there is none
Find(s, c) ==
    IF Contains(s, c)
    THEN CHOOSE i \in 1..Len(s) :
            Char(s, i) = c /\ \A j \in 1..(i - 1) : Char(s, j) # c
    ELSE 0

\* s.split(c): the pieces of s between the occurrences of c, in order
RECURSIVE Split(_, _)
Split(s, c) ==
    LET i == Find(s, c)
    IN  IF i = 0 THEN <<s>>
        ELSE <<SubSeq(s, 1, i - 1)>> \o Split(SubSeq(s, i + 1, Len(s)), c)

\* the characters str.strip() removes (those a TLA+ string can spell)
Whitespace == {" ", "\t", "\n", "\r", "\f"}

RECURSIVE LStrip(_)
LStrip(s) ==
    IF Len(s) > 0 /\ Char(s, 1) \in Whitespace
    THEN LStrip(SubSeq(s, 2, Len(s))) ELSE s

RECURSIVE RStrip(_)
RStrip(s) ==
    IF Len(s) > 0 /\ Char(s, Len(s)) \in Whitespace
    THEN RStrip(SubSeq(s, 1, Len(s) - 1)) ELSE s

\* s.strip()
Strip(s) == RStrip(LStrip(s))

\* s.replace(c, '')
RECURSIVE Remove(_, _)
Remove(s, c) ==
    IF Len(s) = 0 THEN ""
    ELSE (IF Char(s, 1) = c THEN "" ELSE Char(s, 1))
            \o Remove(SubSeq(s, 2, Len(s)), c)

\* s.startswith(p)
StartsWith(s, p) == Len(s) >= Len(p) /\ SubSeq(s, 1, Len(p)) = p

\* the byte 0x1A (Ctrl+Z) that ends a message body
CTRL_Z == ""

(***************************************************************************)
(* The state.                                                              *)
(***************************************************************************)
VARIABLES
    running,          \* ATEmulator.running
    echo,             \* ATEmulator.echo
    verbose,          \* ATEmulator.verbose
    quiet,            \* ATEmulator.quiet
    sms_mode,         \* ATEmulator.sms_mode (0: PDU, 1: text)
    simulated_state,  \* ATEmulator.simulated_state
    buffer,           \* read_loop: the local buffer
    pending,          \* read_loop: the commands the for loop has still to visit
    pc,               \* where the reader thread is: "poll", "loop" or "capture"
    message,          \* read_sms_message: the local message
    wire,             \* bytes a client has written that have not arrived yet
    inq,              \* bytes waiting in the port (serial_port.in_waiting)
    out,              \* what the emulator wrote to the port, one entry per write
    calls,            \* the arguments of the process_command calls so far
    sent,             \* command lines the clients have written
    client_msg,       \* the client is about to write a message body
    splits,           \* reads that saw a part of what was written
    written,          \* the command lines the clients have written, in order
    port_open,        \* serial_port is set and serial_port.is_open
    stop_pc           \* where the host is in stop(): "idle", "closing", "done"

vars == <<running, echo, verbose, quiet, sms_mode, simulated_state, buffer,
          pending, pc, message, wire, inq, out, calls, sent, client_msg, splits,
          written, port_open, stop_pc>>

device == <<echo, verbose, quiet, sms_mode, simulated_state>>

\* __init__, the simulated_state dictionary
initial_simulated_state ==
    [manufacturer |-> "Generic", model |-> "Modem 1.0", revision |-> "1.0.0",
     imei |-> "123456789012345", imsi |-> "310150123456789",
     operator |-> "Mobilis", signal_strength |-> 15, registration_status |-> 1,
     sms_storage |-> <<>>, gprs_attached |-> 0, ip_status |-> "IP INITIAL"]

\* str(i) of a natural number, as an f-string formats it
RECURSIVE PyStr(_)
PyStr(i) ==
    IF i < 10 THEN Char("0123456789", i + 1)
    ELSE PyStr(i \div 10) \o Char("0123456789", (i % 10) + 1)

\* int(s) of a string of decimal digits
RECURSIVE PyInt(_)
PyInt(s) ==
    IF Len(s) = 1 THEN Find("0123456789", s) - 1
    ELSE 10 * PyInt(SubSeq(s, 1, Len(s) - 1)) + PyInt(Char(s, Len(s)))

(***************************************************************************)
(* send_response: the bytes one call writes to the port.                   *)
(***************************************************************************)
send_response(response) ==
    IF verbose THEN "\r\n" \o response \o "\r\n" ELSE response \o "\r\n"

\* one write to the port: the call of process_command it belongs to, the
\* statement that made it, and the bytes written
Write(n, site, response) ==
    [n |-> n, site |-> site, bytes |-> send_response(response)]

(***************************************************************************)
(* The command handlers.  A handler yields what it returns (ret: <<>> for  *)
(* None, <<s>> for the string s), the ATCommandError it raises (raise:     *)
(* <<>> for none) and the state it leaves.                                 *)
(***************************************************************************)
Return(r) ==
    [ret |-> r, raise |-> <<>>, echo |-> echo, sms_mode |-> sms_mode,
     sim |-> simulated_state]

Raise(msg) == [Return(<<>>) EXCEPT !.raise = <<msg>>]

handle_at(command) == Return(<<>>)

handle_ate0(command) == [Return(<<>>) EXCEPT !.echo = FALSE]

handle_ate1(command) == [Return(<<>>) EXCEPT !.echo = TRUE]

handle_ati(command) ==
    Return(<<simulated_state.manufacturer \o " " \o simulated_state.model>>)

handle_gmi(command) == Return(<<simulated_state.manufacturer>>)

handle_gmm(command) == Return(<<simulated_state.model>>)

handle_gmr(command) == Return(<<simulated_state.revision>>)

handle_csq(command) ==
    Return(<<"+CSQ: " \o PyStr(simulated_state.signal_strength) \o ",99">>)

handle_creg(command) ==
    Return(<<"+CREG: 0," \o PyStr(simulated_state.registration_status)>>)

handle_cops(command) ==
    Return(<<"+COPS: 0,0,\"" \o simulated_state.operator \o "\",6">>)

handle_cmgf(command) ==
    IF Contains(command, "=")
    THEN LET mode == Split(command, "=")[2]
         IN  IF mode \in {"0", "1"}
             THEN [Return(<<>>) EXCEPT !.sms_mode = PyInt(mode)]
             ELSE Raise("Invalid mode")
    ELSE Return(<<"+CMGF: " \o PyStr(sms_mode)>>)

handle_cmgr(command) ==
    Return(<<"+CMGR: \"REC UNREAD\",\"1234567890\",,\"21/09/01,12:34:56+00\"\r\nHello, World!">>)

handle_cmgl(command) ==
    Return(<<"+CMGL: 1,\"REC UNREAD\",\"1234567890\",,\"21/09/01,12:34:56+00\"\r\nHello, World!">>)

\* a delete that empties the store
handle_cmgd_clears(command) ==
    [Return(<<>>) EXCEPT !.sim = [simulated_state EXCEPT !.sms_storage = <<>>]]

handle_cmgd(command) == Return(<<>>)

handle_cusd(command) ==
    Return(<<"+CUSD: 0,\"Your balance is 10.00 USD\",15">>)

handle_cgatt(command) ==
    IF Contains(command, "=")
    THEN LET state == Split(command, "=")[2]
         IN  IF state \in {"0", "1"}
             THEN [Return(<<>>) EXCEPT !.sim.gprs_attached = PyInt(state)]
             ELSE Raise("Invalid state")
    ELSE Return(<<"+CGATT: " \o PyStr(simulated_state.gprs_attached)>>)

handle_cipstatus(command) ==
    Return(<<"STATE: " \o simulated_state.ip_status>>)

handle_cipstart(command) ==
    [Return(<<"OK">>) EXCEPT !.sim.ip_status = "CONNECTED"]

handle_cipclose(command) ==
    [Return(<<"CLOSE OK">>) EXCEPT !.sim.ip_status = "IP INITIAL"]

\* an unknown command that leaves the message format changed
handle_unknown_half(command) ==
    [Raise("Command not supported") EXCEPT !.sms_mode = 0]

handle_unknown(command) == Raise("Command not supported")


\* handle_cmgs, PDU mode: the else branch
handle_cmgs_pdu(command) == Raise("PDU mode not supported in this emulator")

\* handle_cmgs, text mode: the prompt it writes before it reads the message
cmgs_prompt == "> "

\* handle_cmgs reporting a reference for a message it did not store
handle_cmgs_store_lost(msg) == Return(<<"+CMGS: 1">>)

\* handle_cmgs, text mode, once read_sms_message has returned msg
handle_cmgs_store(msg) ==
    [Return(<<"+CMGS: 1">>) EXCEPT
        !.sim.sms_storage = Append(@, [status |-> "SENT", message |-> msg])]

\* read_sms_message: the value returned for the accumulated message
sms_message_value(msg) == Strip(Remove(msg, CTRL_Z))

(***************************************************************************)
(* process_command: handler lookup and the writes around the handler.      *)
(***************************************************************************)
\* __init__, the command_handlers dictionary
command_handlers ==
    ("AT" :> "handle_at") @@ ("ATE0" :> "handle_ate0") @@
    ("ATE1" :> "handle_ate1") @@ ("ATI" :> "handle_ati") @@
    ("AT+GMI" :> "handle_gmi") @@ ("AT+GMM" :> "handle_gmm") @@
    ("AT+GMR" :> "handle_gmr") @@ ("AT+CGMI" :> "handle_gmi") @@
    ("AT+CGMM" :> "handle_gmm") @@ ("AT+CGMR" :> "handle_gmr") @@
    ("AT+CSQ" :> "handle_csq") @@ ("AT+CREG?" :> "handle_creg") @@
    ("AT+COPS?" :> "handle_cops") @@ ("AT+CMGF" :> "handle_cmgf") @@
    ("AT+CMGS" :> "handle_cmgs") @@ ("AT+CMGR" :> "handle_cmgr") @@
    ("AT+CMGL" :> "handle_cmgl") @@ ("AT+CMGD" :> "handle_cmgd") @@
    ("AT+CUSD" :> "handle_cusd") @@ ("AT+CGATT" :> "handle_cgatt") @@
    ("AT+CIPSTATUS" :> "handle_cipstatus") @@
    ("AT+CIPSTART" :> "handle_cipstart") @@
    ("AT+CIPCLOSE" :> "handle_cipclose")

\* command.split('=')[0].split('?')[0] + ('?' if '?' in command else '')
base_command(command) ==
    Split(Split(command, "=")[1], "?")[1]
        \o (IF Contains(command, "?") THEN "?" ELSE "")

\* self.command_handlers.get(base_command, self.handle_unknown)
handler_of(command) ==
    LET key == base_command(command)
    IN  IF key \in DOMAIN command_handlers
        THEN command_handlers[key] ELSE "handle_unknown"

\* handler(command), for every handler that returns without reading the port
call_handler(h, command) ==
    CASE h = "handle_at" -> handle_at(command)
      [] h = "handle_ate0" -> handle_ate0(command)
      [] h = "handle_ate1" -> handle_ate1(command)
      [] h = "handle_ati" -> handle_ati(command)
      [] h = "handle_gmi" -> handle_gmi(command)
      [] h = "handle_gmm" -> handle_gmm(command)
      [] h = "handle_gmr" -> handle_gmr(command)
      [] h = "handle_csq" -> handle_csq(command)
      [] h = "handle_creg" -> handle_creg(command)
      [] h = "handle_cops" -> handle_cops(command)
      [] h = "handle_cmgf" -> handle_cmgf(command)
      [] h = "handle_cmgs" -> handle_cmgs_pdu(command)
      [] h = "handle_cmgr" -> handle_cmgr(command)
      [] h = "handle_cmgl" -> handle_cmgl(command)
      [] h = "handle_cmgd" -> handle_cmgd(command)
      [] h = "handle_cusd" -> handle_cusd(command)
      [] h = "handle_cgatt" -> handle_cgatt(command)
      [] h = "handle_cipstatus" -> handle_cipstatus(command)
      [] h = "handle_cipstart" -> handle_cipstart(command)
      [] h = "handle_cipclose" -> handle_cipclose(command)
      [] OTHER -> handle_unknown(command)

\* an echo that does not look at the echo flag
echo_writes_always(n, command) == <<Write(n, "echo", command)>>

\* the echo of the received command, written before the handler runs
echo_writes(n, command) ==
    IF echo THEN <<Write(n, "echo", command)>> ELSE <<>>

\* a try block whose except clauses write nothing
result_writes_silent(n, r) ==
    IF r.raise = <<>>
    THEN (IF r.ret # <<>> THEN <<Write(n, "body", r.ret[1])>> ELSE <<>>)
            \o (IF ~quiet THEN <<Write(n, "ok", "OK")>> ELSE <<>>)
    ELSE <<>>

\* the writes of the try block once the handler has returned or raised
result_writes(n, r) ==
    IF r.raise = <<>>
    THEN (IF r.ret # <<>> THEN <<Write(n, "body", r.ret[1])>> ELSE <<>>)
            \o (IF ~quiet THEN <<Write(n, "ok", "OK")>> ELSE <<>>)
    ELSE <<Write(n, "error", "ERROR: " \o r.raise[1])>>

\* a handler epilogue that turns result codes off
Apply_quiet(r) ==
    /\ echo' = r.echo
    /\ sms_mode' = r.sms_mode
    /\ simulated_state' = r.sim
    /\ quiet' = TRUE
    /\ UNCHANGED verbose

\* the state a handler leaves
Apply(r) ==
    /\ echo' = r.echo
    /\ sms_mode' = r.sms_mode
    /\ simulated_state' = r.sim
    /\ UNCHANGED <<verbose, quiet>>

\* process_command(command), called from the for loop of read_loop
process_command(command) ==
    LET n == Len(calls) + 1
        h == handler_of(command)
    IN  /\ calls' = Append(calls, command)
        /\ IF h = "handle_cmgs" /\ sms_mode = 1
           THEN /\ out' = out \o echo_writes(n, command)
                                \o <<Write(n, "prompt", cmgs_prompt)>>
                /\ message' = ""
                /\ pc' = "capture"
                /\ UNCHANGED device
           ELSE LET r == call_handler(h, command)
                IN  /\ out' = out \o echo_writes(n, command) \o result_writes(n, r)
                    /\ Apply(r)
                    /\ UNCHANGED <<message, pc>>


(***************************************************************************)
(* The clients (send_at_command.py, multi_send.py).                        *)
(***************************************************************************)
\* the command lines a client writes
Lines ==
    {"AT+CMGF=0", "AT+CMGF=1", "AT+CMGF?", "AT+CMGF=9", "AT+CMGF=1=9",
     "AT+CGATT=1", "AT+CGATT?", "AT+CGATT=2",
     "AT+CMGF=9;+CSQ", "AT+CMGF=0;+CSQ",
     "AT+CMGS=5", "AT+CMGS=0", "AT+CMGS=10",
     "ATS0=5", "ATS0?", "ATE0;Q1", "ATI", "AT*200#", "AT*999#"}

\* the message bodies a client writes
Messages == {"Hi"}

\* response = ser.read(...): a client reads the response to what it wrote
\* before it writes again, so the emulator has taken in every byte written
\* so far and is waiting for more
ResponseRead == wire = "" /\ inq = "" /\ pc # "loop"

\* ser.write(f"{command}\r\n".encode()), once the emulator is started; a
\* message follows an AT+CMGS= line
ClientWriteCommand(lines) ==
    /\ running
    /\ ResponseRead
    /\ sent < MaxLines
    /\ ~client_msg
    /\ \E command \in lines :
        /\ wire' = wire \o command \o "\r\n"
        /\ written' = Append(written, command)
        /\ client_msg' = StartsWith(command, "AT+CMGS=")
    /\ sent' = sent + 1
    /\ UNCHANGED <<running, device, buffer, pending, pc, message, inq, out,
                   calls, splits, port_open, stop_pc>>

\* ser.write(f"{message}\x1A".encode())
ClientWriteMessage ==
    /\ ResponseRead
    /\ client_msg
    /\ \E m \in Messages : wire' = wire \o m \o CTRL_Z
    /\ client_msg' = FALSE
    /\ UNCHANGED <<running, device, buffer, pending, pc, message, inq, out,
                   calls, sent, splits, written, port_open, stop_pc>>

\* the serial line delivers the next k bytes to the emulator's port
Arrive ==
    /\ \E k \in 1..Len(wire) :
        /\ k < Len(wire) => splits < MaxSplits
        /\ splits' = IF k < Len(wire) THEN splits + 1 ELSE splits
        /\ inq' = inq \o SubSeq(wire, 1, k)
        /\ wire' = SubSeq(wire, k + 1, Len(wire))
    /\ UNCHANGED <<running, device, buffer, pending, pc, message, out, calls,
                   sent, client_msg, written, port_open, stop_pc>>

(***************************************************************************)
(* The emulator.                                                           *)
(***************************************************************************)
\* start(), which main calls once: the port is opened, running is set and the
\* reader thread started
Start ==
    /\ ~running
    /\ stop_pc = "idle"
    /\ port_open' = TRUE
    /\ running' = TRUE
    /\ UNCHANGED <<device, buffer, pending, pc, message, wire, inq, out, calls,
                   sent, client_msg, splits, written, stop_pc>>

\* read_loop: one pass of the while loop that finds bytes waiting
read_loop_read ==
    /\ running
    /\ pc = "poll"
    /\ inq # ""
    /\ inq' = ""
    /\ LET data == buffer \o inq
       IN  IF Contains(data, "\r") \/ Contains(data, "\n")
           THEN /\ pending' = Split(Strip(data), "\r")
                /\ pc' = "loop"
                /\ buffer' = data
           ELSE /\ buffer' = data
                /\ UNCHANGED <<pending, pc>>
    /\ UNCHANGED <<running, device, message, wire, out, calls, sent,
                   client_msg, splits, written, port_open, stop_pc>>

\* read_loop: one pass of the for loop over the split commands, the port
\* being open
read_loop_for ==
    /\ pc = "loop"
    /\ port_open
    /\ pending # <<>>
    /\ pending' = Tail(pending)
    /\ LET cmd == Head(pending)
       IN  IF cmd # ""
           THEN process_command(Strip(cmd))
           ELSE UNCHANGED <<device, pc, message, out, calls>>
    /\ UNCHANGED <<running, buffer, wire, inq, sent, client_msg, splits,
                   written, port_open, stop_pc>>

\* read_loop: the for loop is over, the buffer is cleared
read_loop_clear ==
    /\ pc = "loop"
    /\ pending = <<>>
    /\ buffer' = ""
    /\ pc' = "poll"
    /\ UNCHANGED <<running, device, pending, message, wire, inq, out, calls,
                   sent, client_msg, splits, written, port_open, stop_pc>>

\* read_sms_message: one read of the open port (in_waiting bytes, or the single
\* byte a blocked read(1) returns), and the rest of handle_cmgs and of
\* process_command once the message holds the terminator
read_sms_message ==
    /\ pc = "capture"
    /\ port_open
    /\ inq # ""
    /\ \E k \in {1, Len(inq)} :
        LET msg == message \o SubSeq(inq, 1, k)
            n == Len(calls)
        IN  /\ inq' = SubSeq(inq, k + 1, Len(inq))
            /\ IF Contains(msg, CTRL_Z)
               THEN LET r == handle_cmgs_store(sms_message_value(msg))
                    IN  /\ out' = out \o result_writes(n, r)
                        /\ Apply(r)
                        /\ message' = ""
                        /\ pc' = "loop"
               ELSE /\ message' = msg
                    /\ UNCHANGED <<device, out, pc>>
    /\ UNCHANGED <<running, buffer, pending, wire, calls, sent, client_msg,
                   splits, written, port_open, stop_pc>>

\* the state once ATEmulator(port, baudrate) is constructed
Init ==
    /\ running = FALSE
    /\ echo = TRUE
    /\ verbose = TRUE
    /\ quiet = FALSE
    /\ sms_mode = 1
    /\ simulated_state = initial_simulated_state
    /\ buffer = ""
    /\ pending = <<>>
    /\ pc = "poll"
    /\ message = ""
    /\ wire = ""
    /\ inq = ""
    /\ out = <<>>
    /\ calls = <<>>
    /\ sent = 0
    /\ client_msg = FALSE
    /\ splits = 0
    /\ written = <<>>
    /\ port_open = FALSE
    /\ stop_pc = "idle"

Next ==
    \/ Start
    \/ ClientWriteCommand(Lines)
    \/ ClientWriteMessage
    \/ Arrive
    \/ read_loop_read
    \/ read_loop_for
    \/ read_loop_clear
    \/ read_sms_message

Spec == Init /\ [][Next]_vars


\* the state when the hosting program has set the public attribute quiet of
\* the constructed emulator before it starts it
InitFlags ==
    /\ running = FALSE
    /\ echo = TRUE
    /\ verbose = TRUE
    /\ quiet \in BOOLEAN
    /\ sms_mode = 1
    /\ simulated_state = initial_simulated_state
    /\ buffer = ""
    /\ pending = <<>>
    /\ pc = "poll"
    /\ message = ""
    /\ wire = ""
    /\ inq = ""
    /\ out = <<>>
    /\ calls = <<>>
    /\ sent = 0
    /\ client_msg = FALSE
    /\ splits = 0
    /\ written = <<>>
    /\ port_open = FALSE
    /\ stop_pc = "idle"

SpecFlags == InitFlags /\ [][Next]_vars

(***************************************************************************)
(* Vocabulary of the properties.                                           *)
(***************************************************************************)
\* call n of process_command has returned
Done(n) == n < Len(calls) \/ (n = Len(calls) /\ pc # "capture")

\* the bytes of the writes of call n, in order: all of them, and those after
\* the echo of the command
WritesOf(n) ==
    LET w == SelectSeq(out, LAMBDA e : e.n = n)
    IN  [i \in 1..Len(w) |-> w[i].bytes]

ResponseOf(n) ==
    LET w == SelectSeq(out, LAMBDA e : e.n = n /\ e.site # "echo")
    IN  [i \in 1..Len(w) |-> w[i].bytes]

\* a response line as it appears on the transport in verbose mode
Line(text) == "\r\n" \o text \o "\r\n"

\* the written bytes are a terminal result code
IsResultCode(bytes) ==
    LET t == Strip(bytes)
    IN  \/ t = "OK"
        \/ StartsWith(t, "ERROR")
        \/ StartsWith(t, "+CMS ERROR")
        \/ StartsWith(t, "+CME ERROR")

IsError(bytes) == IsResultCode(bytes) /\ Strip(bytes) # "OK"

IsDigits(t) ==
    Len(t) > 0 /\ \A i \in 1..Len(t) : Contains("0123456789", Char(t, i))

\* what follows the first '=' of a command
Payload(command) == SubSeq(command, Find(command, "=") + 1, Len(command))

\* the writes of the step being taken
NewWrites == SubSeq(out', Len(out) + 1, Len(out'))

\* the step being taken is the call process_command(command)
Dispatches(command) ==
    Len(calls') = Len(calls) + 1 /\ calls'[Len(calls')] = command


(***************************************************************************)
(* The properties.                                                         *)
(***************************************************************************)

\* C1: set-then-read round trip.  For v in {0,1}: when AT+CMGF=v has been
\* processed successfully (it ended with OK) and the next line processed is
\* AT+CMGF?, that line's response is the body '+CMGF: v' followed by OK; and
\* likewise AT+CGATT=v followed by AT+CGATT? gives '+CGATT: v' and OK.
C1_RoundTrip ==
    \A n \in 1..(Len(calls) - 1) : \A id \in {"+CMGF", "+CGATT"} :
        \A v \in {"0", "1"} :
            ( /\ calls[n] = "AT" \o id \o "=" \o v
              /\ ResponseOf(n) = <<Line("OK")>>
              /\ calls[n + 1] = "AT" \o id \o "?"
              /\ Done(n + 1) )
            => ResponseOf(n + 1) = <<Line(id \o ": " \o v), Line("OK")>>

C3_MultiCommand ==
    \A n \in 1..Len(calls) :
        /\ (calls[n] = "AT+CMGF=9;+CSQ" /\ Done(n)) =>
                /\ Len(ResponseOf(n)) = 1
                /\ IsError(ResponseOf(n)[1])
        /\ (calls[n] = "AT+CMGF=0;+CSQ" /\ n = Len(calls) /\ Done(n)) =>
                /\ sms_mode = 0
                /\ ResponseOf(n) = <<Line("+CSQ: 15,99"), Line("OK")>>


\* the bytes the step being taken takes out of the port
Consumed == SubSeq(inq, 1, Len(inq) - Len(inq'))

\* the written bytes are a '+CMGS: <ref>' body
IsCmgsBody(bytes) ==
    LET t == Strip(bytes)
    IN  StartsWith(t, "+CMGS: ") /\ IsDigits(SubSeq(t, 8, Len(t)))

\* C4: message submission in text mode (sms_mode = 1, verbose, not quiet) is
\* two-phase.  The step that processes an AT+CMGS=<len> line writes the
\* prompt '> ' last, writes neither a result code nor a '+CMGS:' body,
\* leaves the outbound store alone and enters body capture.  While the
\* capture has not read the byte 0x1A nothing is written and nothing stored.
\* The step in which the capture reads 0x1A appends exactly one entry
\* {SENT, body} to the store, body being the captured bytes without the
\* terminator, trimmed; writes '+CMGS: <ref>' and then OK; and returns the
\* reader to the loop over command lines.
C4_TwoPhaseSubmission ==
    [][ /\ ( /\ sms_mode = 1 /\ verbose /\ ~quiet
             /\ \E c \in Lines : StartsWith(c, "AT+CMGS=") /\ Dispatches(c) )
           => /\ NewWrites # <<>>
              /\ NewWrites[Len(NewWrites)].bytes = Line("> ")
              /\ \A i \in 1..Len(NewWrites) :
                    /\ ~IsResultCode(NewWrites[i].bytes)
                    /\ ~IsCmgsBody(NewWrites[i].bytes)
              /\ simulated_state' = simulated_state
              /\ pc' = "capture"
        /\ (pc = "capture" /\ pc' = "capture")
           => /\ out' = out
              /\ simulated_state' = simulated_state
              /\ ~Contains(message', CTRL_Z)
        /\ (pc = "capture" /\ pc' # "capture")
           => /\ Contains(Consumed, CTRL_Z)
              /\ simulated_state'.sms_storage =
                    Append(simulated_state.sms_storage,
                           [status |-> "SENT",
                            message |-> Strip(Remove(message \o Consumed, CTRL_Z))])
              /\ Len(NewWrites) = 2
              /\ IsCmgsBody(NewWrites[1].bytes)
              /\ NewWrites[2].bytes = Line("OK")
              /\ pc' = "loop"
      ]_vars

\* a submission has gone through both phases: the message 'Hi' sent after
\* AT+CMGS=5 is stored and '+CMGS: 1' and OK are the last writes
C4_Witness ==
    /\ Len(calls) >= 1
    /\ calls[Len(calls)] = "AT+CMGS=5"
    /\ pc # "capture"
    /\ simulated_state.sms_storage = <<[status |-> "SENT", message |-> "Hi"]>>
    /\ Len(ResponseOf(Len(calls))) = 3
    /\ ResponseOf(Len(calls)) = <<Line("> "), Line("+CMGS: 1"), Line("OK")>>


\* the references reported by the '+CMGS: <ref>' bodies written so far
Refs ==
    LET w == SelectSeq(out, LAMBDA e : e.site = "body" /\ IsCmgsBody(e.bytes))
    IN  [i \in 1..Len(w) |->
            PyInt(SubSeq(Strip(w[i].bytes), 8, Len(Strip(w[i].bytes))))]

\* C5: over the successful submissions of a session the reported message
\* reference is never 0, lies in 1..255, and each one is the successor of
\* the one before (255 wraps to 1), so two consecutive submissions never
\* report the same reference.
C5_MessageReference ==
    \A i \in 1..Len(Refs) :
        /\ Refs[i] \in 1..255
        /\ i > 1 => Refs[i] = (Refs[i - 1] % 255) + 1

\* C6: S-register round trip.  Once ATS0=5 is processed its response is OK
\* alone, and when the next line processed is ATS0? its response is the
\* body 5 followed by OK.
C6_SRegisterRoundTrip ==
    \A n \in 1..Len(calls) :
        (calls[n] = "ATS0=5" /\ Done(n)) =>
            /\ ResponseOf(n) = <<Line("OK")>>
            /\ (n < Len(calls) /\ calls[n + 1] = "ATS0?" /\ Done(n + 1)) =>
                    ResponseOf(n + 1) = <<Line("5"), Line("OK")>>

\* C7: from the default state, once ATE0;Q1 and then ATI have been
\* processed, everything written for ATI is the ATI body: no echo of the
\* line and no result code after the body.
C7_EchoOffQuietOn ==
    (calls = <<"ATE0;Q1", "ATI">> /\ Done(2)) =>
        WritesOf(2) = <<Line("Generic Modem 1.0")>>

\* C8: USSD dial strings.  The response to AT*200# is one body (the canned
\* balance string) followed by OK; the response to AT*999# is an error
\* result code alone.
C8_UssdDialStrings ==
    \A n \in 1..Len(calls) :
        /\ (calls[n] = "AT*200#" /\ Done(n)) =>
                /\ Len(ResponseOf(n)) = 2
                /\ ~IsResultCode(ResponseOf(n)[1])
                /\ ResponseOf(n)[2] = Line("OK")
        /\ (calls[n] = "AT*999#" /\ Done(n)) =>
                /\ Len(ResponseOf(n)) = 1
                /\ IsError(ResponseOf(n)[1])

\* C9: AT+CMGS=<len> validates len before it prompts: in text mode len > 0,
\* in PDU mode 7 <= len <= 160.  When the check fails the step writes a CMS
\* error, no prompt, does not enter body capture and leaves the outbound
\* store alone; when it passes, in either mode, the step writes the prompt
\* and enters body capture.
C9_CmgsLengthValidated ==
    [][ \A c \in Lines :
          (StartsWith(c, "AT+CMGS=") /\ IsDigits(Payload(c)) /\ Dispatches(c)) =>
            LET len == PyInt(Payload(c))
                valid == IF sms_mode = 1 THEN len > 0 ELSE len >= 7 /\ len <= 160
                prompted == \E i \in 1..Len(NewWrites) :
                                NewWrites[i].bytes = Line("> ")
            IN  IF valid
                THEN prompted /\ pc' = "capture"
                ELSE /\ ~prompted
                     /\ pc' # "capture"
                     /\ NewWrites # <<>>
                     /\ StartsWith(Strip(NewWrites[Len(NewWrites)].bytes), "+CMS ERROR")
                     /\ simulated_state' = simulated_state
      ]_vars

\* C10: AT+CMGF=v and AT+CGATT=v with a payload v other than '0' and '1' end
\* with an error result code, never OK, and leave sms_mode, gprs_attached
\* and every other field of the device state as they were.
C10_InvalidPayloadRejected ==
    [][ \A c \in Lines :
          ( /\ StartsWith(c, "AT+CMGF=") \/ StartsWith(c, "AT+CGATT=")
            /\ Payload(c) \notin {"0", "1"}
            /\ Dispatches(c) ) =>
            /\ NewWrites # <<>>
            /\ IsError(NewWrites[Len(NewWrites)].bytes)
            /\ \A i \in 1..Len(NewWrites) : NewWrites[i].bytes # Line("OK")
            /\ device' = device
      ]_vars



\* the last element of a non-empty sequence
Last(s) == s[Len(s)]

\* nothing is in flight and the reader is back at the top of its loop
Settled == wire = "" /\ inq = "" /\ buffer = "" /\ pc = "poll"

\* a submission before line n was refused, so that the message body its
\* client wrote after it is in front of the lines that follow
BodyInBuffer(n) ==
    \E k \in 1..(n - 1) :
        StartsWith(calls[k], "AT+CMGS=") /\ IsError(Last(ResponseOf(k)))

\* C11: a failing command neither ends the session nor fails silently.  Once
\* lines are being processed the engine keeps running; the lines are processed
\* one by one in the order written, an error in one of them notwithstanding
\* (unless a message body was written after a refused submission);
\* when everything written has been consumed every line has been processed,
\* the one after an error line included; and with quiet off every processed
\* line has at least one response line, the last of which is a result code.
C11_ErrorsAnsweredSessionGoesOn ==
    /\ (calls # <<>> => running)
    /\ Len(calls) <= Len(written)
    /\ \A n \in 1..Len(calls) :
        /\ (~BodyInBuffer(n) => calls[n] = written[n])
        /\ (Done(n) /\ ~quiet) =>
              /\ ResponseOf(n) # <<>>
              /\ IsResultCode(Last(ResponseOf(n)))
    /\ ((Settled /\ ~client_msg) => Len(calls) = Len(written))

\* an error line has been answered with an error, and the line after it has
\* been processed and answered OK
C11_Witness ==
    \E n \in 1..(Len(calls) - 1) :
        /\ IsError(Last(ResponseOf(n)))
        /\ Done(n + 1)
        /\ Last(ResponseOf(n + 1)) = Line("OK")

(***************************************************************************)
(* The forms of a command: letter case and operation type.                 *)
(***************************************************************************)
\* the lines of multi_send.py, the other forms of the same identifiers, and
\* registered commands typed in lower and in mixed case
FormLines ==
    {"AT+COPS=2", "AT+COPS=?", "AT+COPS?", "AT+COPS",
     "AT+CREG?", "AT+CREG=1", "AT+CREG",
     "AT+CMGF=?", "AT+CMGF=0", "AT+CMGF=1", "At+Cmgf=1",
     "AT+CSQ", "at+csq", "AT+CMGS=5"}

NextForms ==
    \/ Start
    \/ ClientWriteCommand(FormLines)
    \/ ClientWriteMessage
    \/ Arrive
    \/ read_loop_read
    \/ read_loop_for
    \/ read_loop_clear
    \/ read_sms_message

SpecForms == Init /\ [][NextForms]_vars

LowerCase == "abcdefghijklmnopqrstuvwxyz"
UpperCase == "ABCDEFGHIJKLMNOPQRSTUVWXYZ"

\* the line in upper case
RECURSIVE Upper(_)
Upper(s) ==
    IF Len(s) = 0 THEN ""
    ELSE LET i == Find(LowerCase, Char(s, 1))
         IN  (IF i = 0 THEN Char(s, 1) ELSE Char(UpperCase, i))
                \o Upper(SubSeq(s, 2, Len(s)))

\* C12: handler lookup is case-insensitive.  A registered command written in
\* lower or mixed case (at+csq, At+Cmgf=1) has the body and the result code
\* of its upper-case form, and the same state change: after At+Cmgf=1 the
\* message format is text mode.
C12_CaseInsensitiveLookup ==
    /\ \A n, m \in 1..Len(calls) :
        ( /\ Done(n) /\ Done(m)
          /\ calls[m] \in {"AT+CSQ", "AT+CMGF=1"}
          /\ Upper(calls[n]) = calls[m] )
        => ResponseOf(n) = ResponseOf(m)
    /\ ( /\ calls # <<>>
         /\ Done(Len(calls))
         /\ Upper(Last(calls)) = "AT+CMGF=1" )
       => sms_mode = 1

\* the bodies the READ registrations +CREG? and +COPS? answer with
ReadBodies == {Line(handle_creg("AT+CREG?").ret[1]),
               Line(handle_cops("AT+COPS?").ret[1])}

\* C16: the handler is chosen by identifier and operation type.  Only the READ
\* form (a '?' and no '=') of +CREG and +COPS is answered by the READ
\* registration: the TEST forms (AT+COPS=?, AT+CMGF=?), the SET forms and the
\* EXECUTE forms never get the body of the READ handler.
C16_OperationType ==
    \A n \in 1..Len(calls) :
        (Done(n) /\ calls[n] \notin {"AT+CREG?", "AT+COPS?"})
        => \A i \in 1..Len(ResponseOf(n)) : ResponseOf(n)[i] \notin ReadBodies

(***************************************************************************)
(* Clients that do not wait: multi_send.py writes a line, sleeps and reads *)
(* whatever has come; send_at_command.py writes the message body when its   *)
(* read(100) returns, prompt or no prompt.                                  *)
(***************************************************************************)
\* ser.write(command + '\r\n') of a client that did not wait for the answer
\* to its previous line
ClientWriteFree(lines) ==
    /\ running
    /\ sent < MaxLines
    /\ ~client_msg
    /\ \E command \in lines :
        /\ wire' = wire \o command \o "\r\n"
        /\ written' = Append(written, command)
        /\ client_msg' = StartsWith(command, "AT+CMGS=")
    /\ sent' = sent + 1
    /\ UNCHANGED <<running, device, buffer, pending, pc, message, inq, out,
                   calls, splits, port_open, stop_pc>>

\* ser.write(message + '\x1A') after a read(100) that returned on its timeout
ClientWriteMessageFree ==
    /\ client_msg
    /\ \E m \in Messages : wire' = wire \o m \o CTRL_Z
    /\ client_msg' = FALSE
    /\ UNCHANGED <<running, device, buffer, pending, pc, message, inq, out,
                   calls, sent, splits, written, port_open, stop_pc>>

\* lines without a second phase
FramingLines == {"AT", "ATI", "AT+CSQ"}

NextFraming ==
    \/ Start
    \/ ClientWriteFree(FramingLines)
    \/ Arrive
    \/ read_loop_read
    \/ read_loop_for
    \/ read_loop_clear

SpecFraming == Init /\ [][NextFraming]_vars

\* C13: line framing, whatever the chunking of the input.  What is dispatched
\* is the written lines, each once, whole (so not before its terminator has
\* been received, a part of a line never being dispatched on its own) and in
\* the order of arrival.
C13_LineFraming ==
    /\ Len(calls) <= Len(written)
    /\ \A n \in 1..Len(calls) : calls[n] = written[n]

\* a submission and a line without a second phase
StreamLines == {"AT", "AT+CMGS=5"}

NextStream ==
    \/ Start
    \/ ClientWriteFree(StreamLines)
    \/ ClientWriteMessageFree
    \/ Arrive
    \/ read_loop_read
    \/ read_loop_for
    \/ read_loop_clear
    \/ read_sms_message

SpecStream == Init /\ [][NextStream]_vars

\* the text holds a byte of a message body or its terminator
HasBodyByte(text) ==
    \E i \in 1..Len(text) :
        \/ Char(text, i) = CTRL_Z
        \/ \E m \in Messages : Contains(m, Char(text, i))

\* the number of submissions among the first k calls
Submissions(k) == Cardinality({j \in 1..k : StartsWith(calls[j], "AT+CMGS=")})

\* C14: body capture takes over byte consumption, whatever the chunking.
\* When the lines up to an accepted AT+CMGS line have been dispatched as
\* written, the bytes after that line up to the first 0x1A are the stored
\* body, exactly, and none of them is dispatched as a command: the entry the
\* submission stores is the message the client wrote, and the command
\* dispatched next holds no byte of a body.
C14_BodyCapture ==
    \A k \in 1..Len(calls) :
        ( /\ StartsWith(calls[k], "AT+CMGS=")
          /\ \A j \in 1..k : calls[j] = written[j] )
        => /\ Done(k) =>
                /\ Len(simulated_state.sms_storage) >= Submissions(k)
                /\ simulated_state.sms_storage[Submissions(k)].message
                        \in Messages
           /\ k < Len(calls) => ~HasBodyByte(calls[k + 1])

(***************************************************************************)
(* Echo and the message store.                                             *)
(***************************************************************************)
\* the echo commands, the message commands and two plain commands
StoreLines ==
    {"AT", "ATI", "ATE0", "ATE1", "AT+CMGF=0", "AT+CMGF=1",
     "AT+CMGS=5", "AT+CMGD=1", "AT+CMGR=1", "AT+CMGL"}

NextStore ==
    \/ Start
    \/ ClientWriteCommand(StoreLines)
    \/ ClientWriteMessage
    \/ Arrive
    \/ read_loop_read
    \/ read_loop_for
    \/ read_loop_clear
    \/ read_sms_message

SpecStore == Init /\ [][NextStore]_vars

\* C15: echo ordering.  When a line starts being processed with echo on, the
\* first thing written is the line, as received, and what the handler has
\* written (body, prompt, result code) comes after it; with echo off nothing
\* written is the line.  The echo flag read is the one in force when the line
\* starts: the ATE0 line itself is echoed, the line after it is not.
C15_EchoOrdering ==
    [][ Len(calls') = Len(calls) + 1 =>
        LET command == calls'[Len(calls')]
        IN  IF echo
            THEN /\ Len(NewWrites) >= 2
                 /\ NewWrites[1].bytes = Line(command)
                 /\ \A i \in 2..Len(NewWrites) :
                        Strip(NewWrites[i].bytes) # command
            ELSE /\ NewWrites # <<>>
                 /\ \A i \in 1..Len(NewWrites) :
                        Strip(NewWrites[i].bytes) # command
      ]_vars

\* ATE0 has been echoed and answered, and the line after it has been answered
\* without an echo
C15_Witness ==
    \E n \in 1..(Len(calls) - 1) :
        /\ calls[n] = "ATE0"
        /\ WritesOf(n) = <<Line("ATE0"), Line("OK")>>
        /\ calls[n + 1] = "ATI"
        /\ Done(n + 1)
        /\ WritesOf(n + 1) = ResponseOf(n + 1)
        /\ Len(WritesOf(n + 1)) = 2

\* C20: the outbound message store is append-only.  In every step its entries
\* stay as they are and in place, it grows by one entry exactly when a message
\* submission completes (the capture has read the 0x1A), and no other step,
\* the dispatch of +CMGD, +CMGR, +CMGL or of a refused +CMGS included, changes
\* it.
C20_StoreAppendOnly ==
    [][ LET old == simulated_state.sms_storage
            new == simulated_state'.sms_storage
        IN  /\ Len(new) >= Len(old)
            /\ SubSeq(new, 1, Len(old)) = old
            /\ IF pc = "capture" /\ pc' # "capture"
               THEN Len(new) = Len(old) + 1
               ELSE new = old
      ]_vars

\* a message has been stored and a delete, a read and a list have been
\* answered after it, or a submission has been refused after it
C20_Witness ==
    /\ Len(simulated_state.sms_storage) = 1
    /\ Len(calls) = 2
    /\ calls[1] = "AT+CMGS=5"
    /\ calls[2] \in {"AT+CMGD=1", "AT+CMGR=1", "AT+CMGL"}
    /\ Done(2)
    /\ ResponseOf(2) # <<>>

(***************************************************************************)
(* The queries.                                                            *)
(***************************************************************************)
\* the commands that only display something, in the forms the handlers take
PureQueries ==
    {"AT", "ATI", "AT+GMI", "AT+GMM", "AT+GMR", "AT+CGMI", "AT+CGMM",
     "AT+CGMR", "AT+CSQ", "AT+CREG?", "AT+COPS?", "AT+CMGR=1", "AT+CMGL",
     "AT+CIPSTATUS", "AT+CMGF", "AT+CMGF?", "AT+CGATT", "AT+CGATT?"}

\* the queries, an identifier no handler is registered for, and commands that
\* change the state the queries display
QueryLines ==
    PureQueries \cup {"AT+XYZ", "ATE0", "AT+CMGF=0", "AT+CGATT=1",
                      "AT+CIPSTART"}

NextQuery ==
    \/ Start
    \/ ClientWriteCommand(QueryLines)
    \/ Arrive
    \/ read_loop_read
    \/ read_loop_for
    \/ read_loop_clear

SpecQuery == Init /\ [][NextQuery]_vars

\* C19: frame condition.  Processing a line whose identifier has no handler
\* ends with an error result and changes no field of the device state (echo,
\* verbose, quiet, message format, GPRS attachment, IP status, message store,
\* SIM and network facts); and processing a pure query (AT, ATI, +GMI, +GMM,
\* +GMR, +CGMI, +CGMM, +CGMR, +CSQ, +CREG?, +COPS?, +CMGR, +CMGL, +CIPSTATUS,
\* the read forms of +CMGF and +CGATT) changes no field either.
C19_FrameCondition ==
    [][ Len(calls') = Len(calls) + 1 =>
        LET command == calls'[Len(calls')]
        IN  /\ handler_of(command) = "handle_unknown" =>
                /\ device' = device
                /\ NewWrites # <<>>
                /\ IsError(NewWrites[Len(NewWrites)].bytes)
            /\ command \in PureQueries => device' = device
      ]_vars

\* with the message format no longer the initial one, a line with an unknown
\* identifier has been answered with an error
C19_Witness ==
    /\ sms_mode = 0
    /\ Len(calls) = 2
    /\ calls[2] = "AT+XYZ"
    /\ Done(2)
    /\ IsError(Last(ResponseOf(2)))

(***************************************************************************)
(* Stopping.  stop() runs on the thread of main while read_loop runs on    *)
(* its own thread; a read or a write of a closed port raises.  The reader   *)
(* thread is at "exit" when read_loop has returned and at "dead" when an    *)
(* exception has left read_loop.                                            *)
(***************************************************************************)
\* a stop() that leaves the port open
stop_close_open ==
    /\ stop_pc = "closing"
    /\ stop_pc' = "done"
    /\ UNCHANGED <<running, device, buffer, pending, pc, message, wire, inq,
                   out, calls, sent, client_msg, splits, written, port_open>>

\* stop(): self.running = False
stop_flag ==
    /\ stop_pc = "idle"
    /\ running
    /\ running' = FALSE
    /\ stop_pc' = "closing"
    /\ UNCHANGED <<device, buffer, pending, pc, message, wire, inq, out, calls,
                   sent, client_msg, splits, written, port_open>>

\* stop(): the port, which is open, is closed
stop_close ==
    /\ stop_pc = "closing"
    /\ port_open' = FALSE
    /\ stop_pc' = "done"
    /\ UNCHANGED <<running, device, buffer, pending, pc, message, wire, inq,
                   out, calls, sent, client_msg, splits, written>>

\* read_loop: the while condition is false, read_loop returns
read_loop_exit ==
    /\ pc = "poll"
    /\ stop_pc # "idle"
    /\ ~running
    /\ pc' = "exit"
    /\ UNCHANGED <<running, device, buffer, pending, message, wire, inq, out,
                   calls, sent, client_msg, splits, written, port_open,
                   stop_pc>>

\* read_loop: the while condition was true before stop() ran, and in_waiting
\* is read from the closed port
read_loop_closed ==
    /\ pc = "poll"
    /\ stop_pc = "done"
    /\ ~port_open
    /\ pc' = "dead"
    /\ UNCHANGED <<running, device, buffer, pending, message, wire, inq, out,
                   calls, sent, client_msg, splits, written, port_open,
                   stop_pc>>

\* read_loop: one pass of the for loop when the port is closed.  The echo is
\* written outside the try block; the handler is called inside it, and what
\* the port raises at the first write (the prompt, the body or the result
\* code) is caught by the except clause, whose own write raises.
read_loop_for_closed ==
    /\ pc = "loop"
    /\ ~port_open
    /\ pending # <<>>
    /\ pending' = Tail(pending)
    /\ LET cmd == Head(pending)
           command == Strip(cmd)
           h == handler_of(command)
       IN  IF cmd = ""
           THEN UNCHANGED <<device, pc, calls>>
           ELSE /\ calls' = Append(calls, command)
                /\ pc' = "dead"
                /\ IF echo \/ (h = "handle_cmgs" /\ sms_mode = 1)
                   THEN UNCHANGED device
                   ELSE Apply(call_handler(h, command))
    /\ UNCHANGED <<running, buffer, message, wire, inq, out, sent, client_msg,
                   splits, written, port_open, stop_pc>>

\* read_sms_message: the read of the closed port raises; the exception leaves
\* handle_cmgs and is caught in process_command, whose write of 'ERROR' raises
read_sms_message_closed ==
    /\ pc = "capture"
    /\ ~port_open
    /\ message' = ""
    /\ pc' = "dead"
    /\ UNCHANGED <<running, device, buffer, pending, wire, inq, out, calls,
                   sent, client_msg, splits, written, port_open, stop_pc>>

\* a plain line, a line that turns the echo off and a submission
StopLines == {"AT", "ATE0", "AT+CMGS=5"}

NextStop ==
    \/ Start
    \/ ClientWriteFree(StopLines)
    \/ ClientWriteMessageFree
    \/ Arrive
    \/ read_loop_read
    \/ read_loop_for
    \/ read_loop_clear
    \/ read_sms_message
    \/ stop_flag
    \/ stop_close
    \/ read_loop_exit
    \/ read_loop_closed
    \/ read_loop_for_closed
    \/ read_sms_message_closed

SpecStop == Init /\ [][NextStop]_vars

\* stop() has returned: the flag is cleared and the port is closed
Stopped == stop_pc = "done"

\* C17: after the session is stopped the emulator writes no further byte to
\* the transport and takes no further byte from it, whatever the read loop was
\* doing when the session was stopped (idle, between the lines of one chunk,
\* inside a handler).
C17_NothingAfterStop ==
    [][ Stopped =>
            /\ out' = out
            /\ Len(inq') >= Len(inq)
            /\ SubSeq(inq', 1, Len(inq)) = inq
      ]_vars

\* the session was stopped between the lines of one chunk, with bytes waiting
\* at the port, and the reader has gone on to the next line
C17_Witness ==
    /\ Stopped
    /\ pc = "dead"
    /\ Len(calls) = 2
    /\ out # <<>>
    /\ inq # ""

\* C18: a session stopped during a body capture.  When the session has been
\* stopped while the engine is capturing a message body, the step that ends
\* the capture takes the engine back to awaiting a command (the read loop),
\* appends nothing to the outbound store and writes nothing: neither '+CMGS:'
\* nor a result code.
C18_StopDuringCapture ==
    [][ (Stopped /\ pc = "capture" /\ pc' # "capture") =>
            /\ pc' \in {"poll", "loop"}
            /\ simulated_state'.sms_storage = simulated_state.sms_storage
            /\ out' = out
      ]_vars

(***************************************************************************)
(* The TCP/IP commands.                                                    *)
(***************************************************************************)
\* the connection commands and a plain command
IpLines == {"AT", "AT+CIPSTATUS", "AT+CIPSTART", "AT+CIPCLOSE"}

NextIp ==
    \/ Start
    \/ ClientWriteCommand(IpLines)
    \/ Arrive
    \/ read_loop_read
    \/ read_loop_for
    \/ read_loop_clear

SpecIp == Init /\ [][NextIp]_vars

\* C21: with quiet off, the response to every processed command line ends
\* with a terminal result line, OK or an error, and holds no other one: never
\* both, and OK at most once (no handler body repeats the result code).
C21_OneTerminalResult ==
    \A n \in 1..Len(calls) :
        (Done(n) /\ ~quiet) =>
            LET r == ResponseOf(n)
            IN  /\ r # <<>>
                /\ IsResultCode(Last(r))
                /\ \A i \in 1..(Len(r) - 1) : ~IsResultCode(r[i])

(***************************************************************************)
(* The mode flags.                                                         *)
(***************************************************************************)
\* the echo commands, the lines a client would use for the two other flags,
\* and a plain command
ModeLines ==
    {"ATE0", "ATE1", "ATE0=1", "ATV0", "ATV1", "ATQ0", "ATQ1", "ATI"}

NextModes ==
    \/ Start
    \/ ClientWriteCommand(ModeLines)
    \/ Arrive
    \/ read_loop_read
    \/ read_loop_for
    \/ read_loop_clear

SpecModes == Init /\ [][NextModes]_vars

\* the bytes are framed as a line of verbose mode
VerboseFramed(bytes) ==
    /\ Len(bytes) >= 4
    /\ StartsWith(bytes, "\r\n")
    /\ SubSeq(bytes, Len(bytes) - 1, Len(bytes)) = "\r\n"

\* C22: quiet is false and verbose is true before and after every step; the
\* echo flag changes only in the processing of an ATE0 line, to false, or of
\* an ATE1 line, to true; and so every line is answered with a result code
\* (a submission, once its body has been captured), everything written being
\* framed as in verbose mode.
C22_OnlyEchoChanges ==
    [][ /\ ~quiet /\ verbose
        /\ ~quiet' /\ verbose'
        /\ echo' # echo =>
            /\ Len(calls') = Len(calls) + 1
            /\ \/ base_command(calls'[Len(calls')]) = "ATE0" /\ ~echo'
               \/ base_command(calls'[Len(calls')]) = "ATE1" /\ echo'
        /\ \A i \in 1..Len(NewWrites) : VerboseFramed(NewWrites[i].bytes)
        /\ (Len(calls') = Len(calls) + 1 /\ pc' # "capture") =>
            /\ NewWrites # <<>>
            /\ IsResultCode(NewWrites[Len(NewWrites)].bytes)
      ]_vars

\* ATE0 has turned the echo off, and a line meant to turn result codes off or
\* to change the framing has been answered with an error, the two flags being
\* what they were
C22_Witness ==
    /\ Len(calls) = 2
    /\ calls[1] = "ATE0"
    /\ calls[2] \in {"ATQ1", "ATV0"}
    /\ Done(2)
    /\ ~echo /\ ~quiet /\ verbose
    /\ WritesOf(2) = <<Line("ERROR: Command not supported")>>
=============================================================================
